---- MODULE Spec2Model ----
(***************************************************************************)
(* remsync: the server-pull pass of src/src/main.rs (server_pull) over the *)
(* LocalState of src/src/serversync.rs.  The state is the local store      *)
(* directory (files), the in-memory index (local_state), the remote        *)
(* listing of the pass (docs), the two loops' remaining ids, the           *)
(* BufWriter of the download in progress and the position of the pass.     *)
(***************************************************************************)
EXTENDS Naturals, Sequences, FiniteSets, TLC

---------------------------------------------------------------------------
(* Bounds *)

\* versions the remote store lists are 1..MaxVersion
MaxVersion == 2
\* invocations of server_pull against the same directory
MaxPasses == 2
\* chunks in the body of one blob
BlobChunks == 2
\* documents in one listing of the remote store
MaxListed == 2

\* Document ids the remote store can list.  An id is a
\* String (responses.rs:88-90), written here as its sequence of characters.
Ids == { <<"a">>, <<"b">>, <<"a", ".", "b">> }

\* The id of a document drafted locally and never synced.
DraftId == <<"b">>

---------------------------------------------------------------------------
(* Paths.  base_path is fixed, so a path is the file name inside it.       *)

DocExt == <<"d", "o", "c">>
ZipExt == <<"z", "i", "p">>
TmpExt == <<".", "z", "i", "p", ".", "t", "m", "p">>

\* index of the last '.' of a file name, 0 when it has none
LastDot(name) ==
    LET dots == { i \in 1..Len(name) : name[i] = "." }
    IN  IF dots = {} THEN 0 ELSE CHOOSE i \in dots : \A j \in dots : j <= i

\* Path::file_stem: the name up to its last '.', the whole name when it
\* has no '.' or only a leading one
FileStem(name) ==
    IF LastDot(name) <= 1 THEN name ELSE SubSeq(name, 1, LastDot(name) - 1)

\* Path::extension: what follows the last '.'; << >> stands for None
Extension(name) ==
    IF LastDot(name) <= 1 THEN << >>
    ELSE SubSeq(name, LastDot(name) + 1, Len(name))

\* PathBuf::set_extension: cut the name back to its stem, then add '.' ext
SetExtension(name, ext) == FileStem(name) \o <<".">> \o ext

doc_path(uuid) == SetExtension(uuid, DocExt)

zip_path(uuid) == SetExtension(uuid, ZipExt)

\* download_path gone wrong: the download is written to the blob path
download_path_zip(uuid) == zip_path(uuid)

download_path(uuid) == SetExtension(zip_path(uuid), TmpExt)

---------------------------------------------------------------------------
(* DocsResponse and its JSON form *)

DocsResponseNew(id, version) ==
    [ success |-> TRUE, message |-> "", id |-> id, version |-> version,
      blob_url_get |-> "", blob_url_get_expires |-> "",
      modified_client |-> "t", node_type |-> "DocumentType", name |-> "n",
      current_page |-> 1, bookmarked |-> TRUE, parent |-> "" ]

\* serde Serialize of DocsResponse: one JSON key per field, renamed
to_writer_pretty(doc) ==
    [ Success |-> doc.success, Message |-> doc.message, ID |-> doc.id,
      Version |-> doc.version, BlobURLGet |-> doc.blob_url_get,
      BlobURLGetExpires |-> doc.blob_url_get_expires,
      ModifiedClient |-> doc.modified_client, Type |-> doc.node_type,
      VissibleName |-> doc.name, CurrentPage |-> doc.current_page,
      Bookmarked |-> doc.bookmarked, Parent |-> doc.parent ]

\* serde Deserialize of DocsResponse
from_reader(json) ==
    [ success |-> json.Success, message |-> json.Message, id |-> json.ID,
      version |-> json.Version, blob_url_get |-> json.BlobURLGet,
      blob_url_get_expires |-> json.BlobURLGetExpires,
      modified_client |-> json.ModifiedClient, node_type |-> json.Type,
      name |-> json.VissibleName, current_page |-> json.CurrentPage,
      bookmarked |-> json.Bookmarked, parent |-> json.Parent ]

(* File contents.  A metadata file holds the whole JSON text of a record   *)
(* (kind "json") or a proper prefix of it, the empty prefix included       *)
(* (kind "trunc").  A blob file holds the first len chunks of the blob of  *)
(* a document at a version.                                                *)
JsonFile(doc) == [ kind |-> "json", text |-> to_writer_pretty(doc) ]

TruncFile(doc) == [ kind |-> "trunc", text |-> to_writer_pretty(doc) ]

BlobFile(id, version, len) ==
    [ kind |-> "blob", of |-> <<id, version>>, len |-> len ]

---------------------------------------------------------------------------
(* Functions as maps *)

Put(f, k, v) == [ x \in DOMAIN f \cup {k} |-> IF x = k THEN v ELSE f[x] ]

Drop(f, k) == [ x \in DOMAIN f \ {k} |-> f[x] ]

EmptyMap == [ x \in {} |-> x ]

---------------------------------------------------------------------------
(* LocalState: the pure parts *)

\* the directory entries load_data hands to load_doc
DocEntries(fs) == { n \in DOMAIN fs : Extension(n) = DocExt }

\* load_doc succeeds on an entry whose text parses as a DocsResponse
load_doc_ok(fs, entry) == fs[entry].kind = "json"

\* the index load_data builds: each entry under its file stem
load_data(fs) ==
    [ k \in { FileStem(n) : n \in DocEntries(fs) } |->
        from_reader(fs[CHOOSE n \in DocEntries(fs) : FileStem(n) = k].text) ]

\* client_uuids.difference(server_uuids) of remove_not_listed
\* the stale set gone wrong: every local id is taken as stale
NotListed_All(local, server_uuids) == DOMAIN local

NotListed(local, server_uuids) == DOMAIN local \ server_uuids

get_not_listed(local, server_uuids) ==
    { s \in server_uuids : s \notin DOMAIN local }

\* find_changed fetching only on a lower local version
find_changed_lower(local, remote) ==
    { remote[k].id : k \in
        { k \in DOMAIN remote :
            IF remote[k].id \in DOMAIN local
            THEN local[remote[k].id].version < remote[k].version
            ELSE TRUE } }

\* find_changed without its None arm
find_changed_known(local, remote) ==
    { remote[k].id : k \in
        { k \in DOMAIN remote :
            IF remote[k].id \in DOMAIN local
            THEN local[remote[k].id].version # remote[k].version
            ELSE FALSE } }

find_changed(local, remote) ==
    { remote[k].id : k \in
        { k \in DOMAIN remote :
            IF remote[k].id \in DOMAIN local
            THEN local[remote[k].id].version # remote[k].version
            ELSE TRUE } }

find_locally_changed(local, remote) ==
    { local[k].id : k \in
        { k \in DOMAIN local :
            IF local[k].id \in DOMAIN remote
            THEN remote[local[k].id].version # local[k].version
            ELSE TRUE } }

---------------------------------------------------------------------------
(* The state *)

VARIABLES
    files,          \* the local store directory: file name -> content
    local_state,    \* LocalState.docs, the in-memory index: key -> record
    docs,           \* server_pull's docs: the remote listing, id -> record
    to_delete,      \* remove_not_listed: ids its loop has yet to visit
    changed_uuids,  \* server_pull: ids the fetch loop has yet to visit
    uuid,           \* the id the fetch loop is at or was last at
    outbuf,         \* chunks held in the BufWriter, not yet in the file
    pc,             \* position of the pass
    result,         \* "none" while running, "ok", or the step that failed
    killed_at,      \* the position an interrupted pass was at, "" otherwise
    passes          \* invocations of server_pull so far

vars == << files, local_state, docs, to_delete, changed_uuids, uuid,
           outbuf, pc, result, killed_at, passes >>

Running == { "Loading", "Listing", "Deleting", "Fetching", "FetchBlob",
             "AdoptWrite", "AdoptRename", "AdoptInsert" }

Terminal == { "Done", "Aborted", "Killed" }

\* the listings storage_fetch_all_docs can return, keyed as server_pull
\* keys them (by the id of each entry)
Snapshots ==
    UNION { { [ i \in S |-> DocsResponseNew(i, ver[i]) ] :
                ver \in [S -> 1..MaxVersion] } :
            S \in { T \in SUBSET Ids : Cardinality(T) <= MaxListed } }

\* directories a first invocation can be pointed at: an empty one, or one
\* holding a document drafted locally and never synced (version 0)
InitDirs ==
    { EmptyMap,
      Put(Put(EmptyMap,
              doc_path(DraftId), JsonFile(DocsResponseNew(DraftId, 0))),
              zip_path(DraftId), BlobFile(DraftId, 0, BlobChunks)) }

---------------------------------------------------------------------------
(* MetadataFile: the local metadata record and its operations *)

\* the clock readings get_now can return
MaxClock == 3

\* the highest version a parsed metadata document holds
MaxMetaVersion == 1

NodeTypes == { "DocumentType", "CollectionType" }

Parents == { "", "p" }

Names == { "n", "m" }

DigitChars == << "0", "1", "2", "3", "4", "5", "6", "7", "8", "9" >>

RECURSIVE Decimal(_)
\* format!("{}", n): the decimal digits of n
Decimal(n) ==
    IF n < 10
    THEN << DigitChars[n + 1] >>
    ELSE Decimal(n \div 10) \o << DigitChars[(n % 10) + 1] >>

\* get_now at clock reading t: the milliseconds rendered as a string
get_now(t) == Decimal(t)

\* MetadataFile::new gone wrong: a new record counts as synced
MetadataFileNew_Synced(node_type, parent, name, t) ==
    [ parent |-> parent, node_type |-> node_type, version |-> 0,
      name |-> name, bookmarked |-> FALSE, synced |-> TRUE,
      last_modified |-> get_now(t), metadata_modified |-> FALSE,
      modified |-> FALSE, deleted |-> FALSE ]

\* MetadataFile::new
MetadataFileNew(node_type, parent, name, t) ==
    [ parent |-> parent, node_type |-> node_type, version |-> 0,
      name |-> name, bookmarked |-> FALSE, synced |-> FALSE,
      last_modified |-> get_now(t), metadata_modified |-> FALSE,
      modified |-> FALSE, deleted |-> FALSE ]

\* set_metadata_modified gone wrong: the flag without the timestamp
set_metadata_modified_flag(m, t) == [ m EXCEPT !.metadata_modified = TRUE ]

set_metadata_modified(m, t) ==
    [ m EXCEPT !.metadata_modified = TRUE, !.last_modified = get_now(t) ]

set_parent(m, parent, t) ==
    IF m.parent # parent
    THEN set_metadata_modified([ m EXCEPT !.parent = parent ], t)
    ELSE m

\* set_name gone wrong: no test whether the name differs
set_name_always(m, name, t) ==
    set_metadata_modified([ m EXCEPT !.name = name ], t)

set_name(m, name, t) ==
    IF m.name # name
    THEN set_metadata_modified([ m EXCEPT !.name = name ], t)
    ELSE m

set_bookmarked(m, bookmarked, t) ==
    IF m.bookmarked # bookmarked
    THEN set_metadata_modified([ m EXCEPT !.bookmarked = bookmarked ], t)
    ELSE m

delete_node(m, t) ==
    IF ~ m.deleted
    THEN set_metadata_modified([ m EXCEPT !.deleted = TRUE ], t)
    ELSE m

set_modified(m, t) ==
    [ m EXCEPT !.modified = TRUE, !.last_modified = get_now(t) ]

\* the keys of a metadata JSON document, as the serde renames give them
MetaKeys == { "parent", "type", "version", "visibleName", "pinned",
              "synced", "lastModified", "metadatamodified", "modified",
              "deleted" }

\* Serialize gone wrong: metadata_modified keeps its field name
to_value_norename(m) ==
    [ parent |-> m.parent, type |-> m.node_type, version |-> m.version,
      visibleName |-> m.name, pinned |-> m.bookmarked, synced |-> m.synced,
      lastModified |-> m.last_modified,
      metadata_modified |-> m.metadata_modified,
      modified |-> m.modified, deleted |-> m.deleted ]

\* Serialize for MetadataFile: the JSON value of a record
to_value(m) ==
    [ parent |-> m.parent, type |-> m.node_type, version |-> m.version,
      visibleName |-> m.name, pinned |-> m.bookmarked, synced |-> m.synced,
      lastModified |-> m.last_modified,
      metadatamodified |-> m.metadata_modified,
      modified |-> m.modified, deleted |-> m.deleted ]

\* what Deserialize returns for a value that lacks a field
ParseError == [ error |-> "missing field" ]

\* Deserialize for MetadataFile: the record of a JSON value
from_value(v) ==
    IF MetaKeys \subseteq DOMAIN v
    THEN [ parent |-> v.parent, node_type |-> v.type, version |-> v.version,
           name |-> v.visibleName, bookmarked |-> v.pinned,
           synced |-> v.synced, last_modified |-> v.lastModified,
           metadata_modified |-> v.metadatamodified,
           modified |-> v.modified, deleted |-> v.deleted ]
    ELSE ParseError

\* the metadata JSON documents a record can be parsed from
MetaDocs ==
    [ parent : Parents, type : NodeTypes, version : 0..MaxMetaVersion,
      visibleName : Names, pinned : BOOLEAN, synced : BOOLEAN,
      lastModified : { get_now(t) : t \in 0..MaxClock },
      metadatamodified : BOOLEAN, modified : BOOLEAN, deleted : BOOLEAN ]

VARIABLES
    meta,           \* a MetadataFile
    now,            \* the system clock, in milliseconds
    called,         \* the last step taken on meta, with its argument
    origin          \* "new": built by MetadataFile::new; "parsed"

metavars == << meta, now, called, origin >>

Call(op, arg) == [ op |-> op, arg |-> arg ]

\* the MetadataFile variables of a run that uses no MetadataFile
MetaParked ==
    /\ meta = MetadataFileNew("DocumentType", "", "n", 0)
    /\ now = 0
    /\ called = Call("new", "")
    /\ origin = "new"

---------------------------------------------------------------------------
(* storage_upload_doc: what the server can answer *)

\* the longest zipfile uploaded
MaxZip == 2

\* the most entries a response list holds
MaxResponses == 2

HttpStatuses == { 200, 204, 500 }

\* StatusCode::is_success
is_success(status) == status >= 200 /\ status < 300

\* the response lists a body can parse to
ResponseLists ==
    UNION { [ 1..n -> [ success : BOOLEAN, blob_url_put : { "u" } ] ] :
            n \in 0..MaxResponses }

\* what a request can meet: the transport fails or answers with a status
\* and a body, which may parse to a response list
Replies ==
    [ transport : BOOLEAN, status : HttpStatuses, parse_ok : BOOLEAN,
      items : ResponseLists ]

\* the answers to the blob PUT, whose body is not read
BlobReplies ==
    { r \in Replies : r.parse_ok /\ r.items = << >> }

\* the checks after an upload-request or update-status request: it was
\* answered, with a success status, and the body parsed to exactly one
\* response whose success flag is set
json_step_ok(r) ==
    /\ r.transport
    /\ is_success(r.status)
    /\ r.parse_ok
    /\ Len(r.items) = 1
    /\ r.items[1].success

\* the checks after the blob PUT
blob_step_ok(r) == r.transport /\ is_success(r.status)

NoReturn == [ returned |-> FALSE ]

UploadOk(lenzip) == [ returned |-> TRUE, ok |-> TRUE, value |-> lenzip ]

UploadErr(step) == [ returned |-> TRUE, ok |-> FALSE, value |-> step ]

VARIABLES
    up_args,        \* storage_upload_doc's id, version and zipfile length
    up_pc,          \* position of storage_upload_doc
    requests,       \* the requests sent so far, in order
    replies,        \* the answer each request met
    up_ret          \* what storage_upload_doc returned, NoReturn before

uploadvars == << up_args, up_pc, requests, replies, up_ret >>

\* the upload variables of a run that uploads nothing
UploadParked ==
    /\ up_args = [ id |-> << "a" >>, version |-> 0, zipfile |-> 0 ]
    /\ up_pc = "UploadRequest"
    /\ requests = << >>
    /\ replies = << >>
    /\ up_ret = NoReturn

Init ==
    /\ files \in InitDirs
    /\ local_state = EmptyMap
    /\ docs = EmptyMap
    /\ to_delete = {}
    /\ changed_uuids = {}
    /\ uuid = << >>
    /\ outbuf = 0
    /\ pc = "Loading"
    /\ result = "none"
    /\ killed_at = ""
    /\ passes = 1
    /\ MetaParked
    /\ UploadParked

\* server_pull returns Err(step) through a `?`
Fail(step) == pc' = "Aborted" /\ result' = step

\* the BufWriter is dropped: its chunks reach the file behind it if the
\* flush succeeds and are lost, with no error raised, if it fails
DropFlush(fs, name, flushed) ==
    IF flushed /\ outbuf > 0 /\ name \in DOMAIN fs
    THEN [ fs EXCEPT ![name].len = @ + outbuf ]
    ELSE fs

---------------------------------------------------------------------------
(* server_pull, step by step *)

\* LocalState::new gone wrong: an entry that fails to load is skipped
LocalStateNew_SkipBad ==
    /\ pc = "Loading"
    /\ local_state' =
         load_data([ n \in { m \in DOMAIN files : files[m].kind = "json" }
                       |-> files[n] ])
    /\ pc' = "Listing"
    /\ UNCHANGED << files, docs, to_delete, changed_uuids, uuid, outbuf,
                    result, killed_at, passes >>

\* LocalState::new: read the directory; any entry that fails to load, or
\* an I/O error, fails the whole load
LocalStateNew ==
    /\ pc = "Loading"
    /\ \E io_ok \in BOOLEAN :
         IF io_ok /\ \A n \in DocEntries(files) : load_doc_ok(files, n)
         THEN /\ local_state' = load_data(files)
              /\ pc' = "Listing"
              /\ UNCHANGED result
         ELSE /\ Fail("load")
              /\ UNCHANGED local_state
    /\ UNCHANGED << files, docs, to_delete, changed_uuids, uuid, outbuf,
                    killed_at, passes >>

\* token, discovery and storage_fetch_all_docs, then the entry of
\* remove_not_listed, which fixes the ids it will visit
FetchAllDocs ==
    /\ pc = "Listing"
    /\ \/ /\ Fail("list")
          /\ UNCHANGED << docs, to_delete >>
       \/ \E listing \in Snapshots :
            /\ docs' = listing
            /\ to_delete' = NotListed(local_state, DOMAIN listing)
            /\ pc' = "Deleting"
            /\ UNCHANGED result
    /\ UNCHANGED << files, local_state, changed_uuids, uuid, outbuf,
                    killed_at, passes >>

\* fs::remove_file: the directory after removing name; it fails when the
\* file is absent or on an I/O error
remove_file_ok(fs, name, io_ok) == io_ok /\ name \in DOMAIN fs

\* one turn of the loop of remove_not_listed
RemoveNotListed ==
    /\ pc = "Deleting"
    /\ \E k \in to_delete, doc_io \in BOOLEAN, zip_io \in BOOLEAN :
         /\ local_state' = Drop(local_state, k)
         /\ to_delete' = to_delete \ {k}
         /\ IF ~ remove_file_ok(files, doc_path(k), doc_io)
            THEN /\ Fail("remove_doc")
                 /\ UNCHANGED files
            ELSE IF ~ remove_file_ok(Drop(files, doc_path(k)), zip_path(k),
                                     zip_io)
            THEN /\ Fail("remove_zip")
                 /\ files' = Drop(files, doc_path(k))
            ELSE /\ files' = Drop(Drop(files, doc_path(k)), zip_path(k))
                 /\ UNCHANGED << pc, result >>
    /\ UNCHANGED << docs, changed_uuids, uuid, outbuf, killed_at, passes >>

\* find_changed gone wrong: it runs while remove_not_listed has ids left
FindChanged_Early ==
    /\ pc = "Deleting"
    /\ changed_uuids' = find_changed(local_state, docs)
    /\ pc' = "Fetching"
    /\ UNCHANGED << files, local_state, docs, to_delete, uuid, outbuf,
                    result, killed_at, passes >>

\* remove_not_listed returns Ok; find_changed
FindChanged ==
    /\ pc = "Deleting"
    /\ to_delete = {}
    /\ changed_uuids' = find_changed(local_state, docs)
    /\ pc' = "Fetching"
    /\ UNCHANGED << files, local_state, docs, to_delete, uuid, outbuf,
                    result, killed_at, passes >>

\* head of the fetch loop: the next id, in any order, and File::create of
\* its download path
FetchBegin ==
    /\ pc = "Fetching"
    /\ \E u \in changed_uuids, io_ok \in BOOLEAN :
         /\ uuid' = u
         /\ changed_uuids' = changed_uuids \ {u}
         /\ IF io_ok
            THEN /\ files' = Put(files, download_path(u),
                                 BlobFile(u, docs[u].version, 0))
                 /\ pc' = "FetchBlob"
                 /\ UNCHANGED result
            ELSE /\ Fail("create_temp")
                 /\ UNCHANGED files
    /\ UNCHANGED << local_state, docs, to_delete, outbuf, killed_at, passes >>

\* chunks of the body received so far
Written == files[download_path(uuid)].len + outbuf

\* storage_fetch_blob: one more chunk of the body goes through
\* BufWriter::write_all, which holds it back, or first flushes what it
\* holds, or also writes the chunk through
FetchChunk ==
    /\ pc = "FetchBlob"
    /\ Written < BlobChunks
    /\ \/ /\ outbuf' = outbuf + 1
          /\ UNCHANGED files
       \/ /\ outbuf > 0
          /\ outbuf' = 1
          /\ files' = [ files EXCEPT ![download_path(uuid)].len = @ + outbuf ]
       \/ /\ outbuf' = 0
          /\ files' = [ files EXCEPT
                         ![download_path(uuid)].len = @ + outbuf + 1 ]
    /\ UNCHANGED << local_state, docs, to_delete, changed_uuids, uuid, pc,
                    result, killed_at, passes >>

\* storage_fetch_blob fails: a request, the stream or a write
FetchFail ==
    /\ pc = "FetchBlob"
    /\ Written < BlobChunks
    /\ \E flushed \in BOOLEAN :
         files' = DropFlush(files, download_path(uuid), flushed)
    /\ outbuf' = 0
    /\ Fail("fetch")
    /\ UNCHANGED << local_state, docs, to_delete, changed_uuids, uuid,
                    killed_at, passes >>

\* adopt_doc going from File::create straight to fs::rename
AdoptCreate_NoWrite ==
    /\ pc = "FetchBlob"
    /\ files[download_path(uuid)].len + outbuf = BlobChunks
    /\ files' = Put(files, doc_path(docs[uuid].id), TruncFile(docs[uuid]))
    /\ pc' = "AdoptRename"
    /\ UNCHANGED << local_state, docs, to_delete, changed_uuids, uuid,
                    outbuf, result, killed_at, passes >>

\* adopt_doc: File::create of the metadata file
AdoptCreate ==
    /\ pc = "FetchBlob"
    /\ Written = BlobChunks
    /\ \E io_ok \in BOOLEAN :
         IF io_ok
         THEN /\ files' = Put(files, doc_path(docs[uuid].id),
                              TruncFile(docs[uuid]))
              /\ pc' = "AdoptWrite"
              /\ UNCHANGED << outbuf, result >>
         ELSE /\ \E flushed \in BOOLEAN :
                   files' = DropFlush(files, download_path(uuid), flushed)
              /\ outbuf' = 0
              /\ Fail("adopt_create")
    /\ UNCHANGED << local_state, docs, to_delete, changed_uuids, uuid,
                    killed_at, passes >>

\* adopt_doc: to_writer_pretty
AdoptWrite ==
    /\ pc = "AdoptWrite"
    /\ \E io_ok \in BOOLEAN :
         IF io_ok
         THEN /\ files' = Put(files, doc_path(docs[uuid].id),
                              JsonFile(docs[uuid]))
              /\ pc' = "AdoptRename"
              /\ UNCHANGED << outbuf, result >>
         ELSE /\ \E flushed \in BOOLEAN :
                   files' = DropFlush(files, download_path(uuid), flushed)
              /\ outbuf' = 0
              /\ Fail("adopt_write")
    /\ UNCHANGED << local_state, docs, to_delete, changed_uuids, uuid,
                    killed_at, passes >>

\* fs::rename: the directory with the file at from moved to to
rename(fs, from, to) == Put(Drop(fs, from), to, fs[from])

\* adopt_doc with the index entry inserted ahead of fs::rename
AdoptRename_InsertFirst ==
    /\ pc = "AdoptRename"
    /\ local_state' = Put(local_state, docs[uuid].id, docs[uuid])
    /\ \E io_ok \in BOOLEAN :
         IF io_ok
         THEN /\ files' = rename(files, download_path(uuid),
                                 zip_path(docs[uuid].id))
              /\ pc' = "AdoptInsert"
              /\ UNCHANGED << outbuf, result >>
         ELSE /\ \E flushed \in BOOLEAN :
                   files' = DropFlush(files, download_path(uuid), flushed)
              /\ outbuf' = 0
              /\ Fail("adopt_rename")
    /\ UNCHANGED << docs, to_delete, changed_uuids, uuid, killed_at, passes >>

\* adopt_doc: fs::rename of the download to the blob path
AdoptRename ==
    /\ pc = "AdoptRename"
    /\ \E io_ok \in BOOLEAN :
         IF io_ok
         THEN /\ files' = rename(files, download_path(uuid),
                                 zip_path(docs[uuid].id))
              /\ pc' = "AdoptInsert"
              /\ UNCHANGED << outbuf, result >>
         ELSE /\ \E flushed \in BOOLEAN :
                   files' = DropFlush(files, download_path(uuid), flushed)
              /\ outbuf' = 0
              /\ Fail("adopt_rename")
    /\ UNCHANGED << local_state, docs, to_delete, changed_uuids, uuid,
                    killed_at, passes >>

\* adopt_doc: the index entry, Ok; the turn of the loop ends and drops
\* the BufWriter, whose file is by now the blob file
AdoptInsert ==
    /\ pc = "AdoptInsert"
    /\ local_state' = Put(local_state, docs[uuid].id, docs[uuid])
    /\ \E flushed \in BOOLEAN :
         files' = DropFlush(files, zip_path(docs[uuid].id), flushed)
    /\ outbuf' = 0
    /\ pc' = "Fetching"
    /\ UNCHANGED << docs, to_delete, changed_uuids, uuid, result, killed_at,
                    passes >>

\* the fetch loop is over: server_pull returns Ok
PullOk ==
    /\ pc = "Fetching"
    /\ changed_uuids = {}
    /\ pc' = "Done"
    /\ result' = "ok"
    /\ UNCHANGED << files, local_state, docs, to_delete, changed_uuids, uuid,
                    outbuf, killed_at, passes >>

\* the process is interrupted: what the BufWriter holds is lost
Interrupt ==
    /\ pc \in Running
    /\ pc' = "Killed"
    /\ killed_at' = pc
    /\ outbuf' = 0
    /\ UNCHANGED << files, local_state, docs, to_delete, changed_uuids, uuid,
                    result, passes >>

\* the next invocation of server_pull on the same directory
Invoke ==
    /\ pc \in Terminal
    /\ passes < MaxPasses
    /\ passes' = passes + 1
    /\ local_state' = EmptyMap
    /\ docs' = EmptyMap
    /\ to_delete' = {}
    /\ changed_uuids' = {}
    /\ uuid' = << >>
    /\ outbuf' = 0
    /\ pc' = "Loading"
    /\ result' = "none"
    /\ killed_at' = ""
    /\ UNCHANGED files

\* server_pull uses no MetadataFile and uploads nothing
PullOnly == UNCHANGED << metavars, uploadvars >>

Next ==
    \/ LocalStateNew   /\ PullOnly
    \/ FetchAllDocs    /\ PullOnly
    \/ RemoveNotListed /\ PullOnly
    \/ FindChanged     /\ PullOnly
    \/ FetchBegin      /\ PullOnly
    \/ FetchChunk      /\ PullOnly
    \/ FetchFail       /\ PullOnly
    \/ AdoptCreate     /\ PullOnly
    \/ AdoptWrite      /\ PullOnly
    \/ AdoptRename     /\ PullOnly
    \/ AdoptInsert     /\ PullOnly
    \/ PullOk          /\ PullOnly
    \/ Interrupt       /\ PullOnly
    \/ Invoke          /\ PullOnly

Spec == Init /\ [][Next]_vars

---------------------------------------------------------------------------
(* What a following invocation finds in the directory as it stands *)

\* LocalState::new of a following invocation succeeds
NextLoadOk == \A n \in DocEntries(files) : load_doc_ok(files, n)

\* the index LocalState::new of a following invocation builds
NextLoad == load_data(files)

\* the steps of one turn of the fetch loop that can fail
FetchFailures ==
    { "create_temp", "fetch", "adopt_create", "adopt_write", "adopt_rename" }

\* the steps of one turn of the loop of remove_not_listed that can fail
RemoveFailures == { "remove_doc", "remove_zip" }

\* adopt_doc has written the whole metadata record of the id it is at
MetaWritten ==
    /\ doc_path(uuid) \in DOMAIN files
    /\ files[doc_path(uuid)] = JsonFile(docs[uuid])

\* the index does not yet hold the listed record of the id the loop is at
IndexNotUpdated ==
    uuid \notin DOMAIN local_state \/ local_state[uuid] # docs[uuid]

---------------------------------------------------------------------------
(* Claims *)

\* C1: when a pass is interrupted inside adopt_doc after the metadata file
\* was written and before the rename, a following load succeeds and
\* find_changed against the same listing contains that id.
C1_CrashSafeAdopt ==
    (pc = "Killed" /\ killed_at = "AdoptRename")
        => /\ NextLoadOk
           /\ uuid \in find_changed(NextLoad, docs)

\* C2: the stale set and the set find_changed returns are disjoint, and
\* each listed id is either in find_changed or held locally at the listed
\* version, never both and never neither.
C2_SetPartition ==
    LET stale == NotListed(local_state, DOMAIN docs)
        outdated == find_changed(local_state, docs)
        uptodate == { id \in DOMAIN docs :
                        /\ id \in DOMAIN local_state
                        /\ local_state[id].version = docs[id].version }
    IN  /\ stale \cap outdated = {}
        /\ outdated \cap uptodate = {}
        /\ outdated \cup uptodate = DOMAIN docs

C2_Witness ==
    /\ pc = "Deleting"
    /\ NotListed(local_state, DOMAIN docs) # {}
    /\ find_changed(local_state, docs) # {}
    /\ \E id \in DOMAIN docs : id \notin find_changed(local_state, docs)

\* C3: find_changed returns exactly the listed ids that are absent from
\* the index or held at a version other than the listed one; it returns
\* no id held at the listed version and no id that is not listed.
C3_FindChangedExact ==
    \A id \in Ids \cup DOMAIN local_state \cup DOMAIN docs :
        id \in find_changed(local_state, docs)
            <=> /\ id \in DOMAIN docs
                /\ \/ id \notin DOMAIN local_state
                   \/ local_state[id].version # docs[id].version

C3_Witness ==
    /\ pc = "Fetching"
    /\ \E i \in DOMAIN docs \cap DOMAIN local_state :
         /\ local_state[i].version # docs[i].version
         /\ i \in changed_uuids
    /\ \E j \in DOMAIN docs : j \notin DOMAIN local_state /\ j \in changed_uuids

\* C4: once a pass has returned Ok, a following pass against the same
\* listing finds no stale id and find_changed returns the empty set.
C4_Idempotent ==
    pc = "Done"
        => /\ NextLoadOk
           /\ NotListed(NextLoad, DOMAIN docs) = {}
           /\ find_changed(NextLoad, docs) = {}

\* C5: adopt_doc renames the download only once the metadata record is
\* written whole, updates the index only after the rename, and does
\* neither when creating or writing the metadata file fails.
C5_AdoptOrder ==
    /\ pc = "AdoptRename"
        => /\ MetaWritten
           /\ download_path(uuid) \in DOMAIN files
           /\ IndexNotUpdated
    /\ pc = "AdoptInsert"
        => /\ MetaWritten
           /\ download_path(uuid) \notin DOMAIN files
           /\ zip_path(uuid) \in DOMAIN files
           /\ files[zip_path(uuid)].of = << uuid, docs[uuid].version >>
           /\ IndexNotUpdated
    /\ (pc = "Aborted" /\ result \in { "adopt_create", "adopt_write" })
        => /\ download_path(uuid) \in DOMAIN files
           /\ IndexNotUpdated

C5_Witness ==
    /\ pc = "AdoptInsert"
    /\ MetaWritten
    /\ zip_path(uuid) \in DOMAIN files

\* C6: when adopt_doc has written the metadata of an id and the rename
\* fails, the pass returns the error, the index entry of that id is as
\* before (the id is still outdated) and the download is still there.
C6_RenameFailure ==
    result = "adopt_rename"
        => /\ pc = "Aborted"
           /\ MetaWritten
           /\ download_path(uuid) \in DOMAIN files
           /\ IndexNotUpdated
           /\ uuid \in find_changed(local_state, docs)

C6_Witness ==
    /\ result = "adopt_rename"
    /\ pc = "Aborted"
    /\ MetaWritten

\* C7: once adopt_doc has returned Ok for a record, the record a fresh
\* load of the directory yields for its id equals the index entry.
C7_IndexMatchesDisk ==
    (pc = "Fetching" /\ uuid # << >>)
        => /\ NextLoadOk
           /\ uuid \in DOMAIN NextLoad
           /\ NextLoad[uuid] = local_state[uuid]

\* C8: a record held at version 0 (never synced) that the listing lacks
\* is not deleted by the pass: no step of the deleting phase drops it from
\* the index or removes its metadata file or its blob file.
C8_DraftKept ==
    [][ \A k \in DOMAIN local_state :
          ( /\ pc = "Deleting"
            /\ local_state[k].version = 0
            /\ k \notin DOMAIN docs )
              => /\ k \in DOMAIN local_state'
                 /\ doc_path(k) \in DOMAIN files'
                 /\ zip_path(k) \in DOMAIN files' ]_vars

\* C9: a failure in fetching or adopting one id does not end the pass:
\* the pass visits every other outdated id and ends Done.
C9_FetchFailureNotFatal ==
    /\ pc = "Aborted" => result \notin FetchFailures
    /\ pc \in { "Done", "Aborted" } /\ result \in FetchFailures \cup { "ok" }
        => changed_uuids = {}

\* C10: a failure in deleting one stale id does not end the pass: the
\* other stale ids are deleted and the pass goes on to fetch.
C10_RemoveFailureNotFatal ==
    /\ pc = "Aborted" => result \notin RemoveFailures
    /\ pc \in { "Done", "Aborted" } /\ result \in RemoveFailures \cup { "ok" }
        => to_delete = {}

\* the file at a path is the same in two directories
SameFile(fs, gs, path) ==
    /\ (path \in DOMAIN fs) = (path \in DOMAIN gs)
    /\ path \in DOMAIN fs => fs[path] = gs[path]

\* the positions of the fetch loop
FetchPhase == { "Fetching", "FetchBlob", "AdoptWrite", "AdoptRename",
                "AdoptInsert" }

\* a listed record is committed: the index, the metadata file and the
\* blob file hold it at the listed version
Committed(local, fs, remote, id) ==
    /\ id \in DOMAIN local
    /\ local[id] = remote[id]
    /\ doc_path(id) \in DOMAIN fs
    /\ fs[doc_path(id)] = JsonFile(remote[id])
    /\ zip_path(id) \in DOMAIN fs
    /\ fs[zip_path(id)].of = << id, remote[id].version >>

\* C11: when remove_not_listed visits a stale id whose metadata file is
\* there and whose blob file is already absent, the removal of the
\* metadata file is followed by no error for the missing blob file.
C11_AbsentBlobNoError ==
    [][ \A k \in to_delete :
          ( /\ pc = "Deleting"
            /\ to_delete' = to_delete \ {k}
            /\ doc_path(k) \in DOMAIN files
            /\ zip_path(k) \notin DOMAIN files
            /\ doc_path(k) \notin DOMAIN files' )
              => result' # "remove_zip" ]_vars

\* C12: after a failed blob fetch of an id, the index entry of the id is
\* not updated, a following load succeeds and the id is again in
\* find_changed against the same listing; and from the head of the loop
\* to the end of the fetch, no step changes the index, the metadata file
\* or the blob file of the id.
C12_FetchFailureKeepsState ==
    /\ []( result = "fetch"
             => /\ IndexNotUpdated
                /\ NextLoadOk
                /\ uuid \in find_changed(NextLoad, docs) )
    /\ [][ ( /\ pc \in { "Fetching", "FetchBlob" }
             /\ pc' \in { "FetchBlob", "Aborted" }
             /\ result' \in { "none", "create_temp", "fetch" } )
             => /\ local_state' = local_state
                /\ SameFile(files, files', doc_path(uuid'))
                /\ SameFile(files, files', zip_path(uuid')) ]_vars

\* C13: when the deletion of a stale id fails, at the metadata file or at
\* the blob file, a following load still holds the id and the id is
\* again stale against the same listing.
C13_FailedDeleteKeepsId ==
    [][ \A k \in to_delete :
          ( /\ pc = "Deleting"
            /\ to_delete' = to_delete \ {k}
            /\ result' \in RemoveFailures )
              => k \in NotListed(load_data(files'), DOMAIN docs) ]_vars

\* C14: when a pass has stopped in the fetch loop outside an adoption, at
\* a failed fetch or at an interruption, every id the loop has not
\* visited is in find_changed of a following load against the same
\* listing; and while the loop runs, a committed id stays committed and
\* the files of the unvisited ids are left as they are.
C14_PartialPass ==
    /\ []( ( \/ pc = "Aborted" /\ result \in { "create_temp", "fetch" }
             \/ pc = "Killed" /\ killed_at \in { "Fetching", "FetchBlob" } )
             => /\ NextLoadOk
                /\ changed_uuids \subseteq find_changed(NextLoad, docs) )
    /\ [][ ( /\ pc \in FetchPhase
             /\ pc' \in FetchPhase \cup { "Aborted", "Killed", "Done" } )
             => /\ \A id \in DOMAIN docs :
                     Committed(local_state, files, docs, id)
                         => Committed(local_state', files', docs, id)
                /\ \A id \in changed_uuids' :
                     /\ SameFile(files, files', doc_path(id))
                     /\ SameFile(files, files', zip_path(id)) ]_vars

C16_LoadAllOrNothing ==
    /\ pc = "Listing" => NextLoadOk /\ local_state = NextLoad
    /\ result = "load"
         => /\ pc = "Aborted"
            /\ local_state = EmptyMap
            /\ docs = EmptyMap
            /\ to_delete = {}
            /\ changed_uuids = {}

\* a pass has failed at loading a directory with an unparsable metadata
\* file beside a good one
C16_Witness ==
    /\ result = "load"
    /\ ~ NextLoadOk
    /\ \E n \in DocEntries(files) : load_doc_ok(files, n)

\* C17: for any two distinct listed ids, the metadata path, the blob
\* path and the download path of one all differ from the three paths of
\* the other.
C17_PathsDistinct ==
    \A i, j \in DOMAIN docs :
        i # j => { doc_path(i), zip_path(i), download_path(i) }
                     \cap { doc_path(j), zip_path(j), download_path(j) }
                 = {}

\* C18: the download path of an id is no entry the loader reads and is
\* the metadata or blob path of no id; a directory holding the download
\* file of a fetch in progress or interrupted loads without error, and
\* loads the same index as without that file.
C18_TempNotLoaded ==
    /\ \A i \in Ids :
         /\ Extension(download_path(i)) # DocExt
         /\ \A j \in Ids : download_path(i) \notin { doc_path(j), zip_path(j) }
    /\ ( pc = "FetchBlob" \/ ( pc = "Killed" /\ killed_at = "FetchBlob" ) )
         => /\ download_path(uuid) \in DOMAIN files
            /\ NextLoadOk
            /\ NextLoad = load_data(Drop(files, download_path(uuid)))

\* a pass was interrupted with the blob half written to the download file
C18_Witness ==
    /\ pc = "Killed"
    /\ killed_at = "FetchBlob"
    /\ download_path(uuid) \in DOMAIN files
    /\ files[download_path(uuid)].len > 0
    /\ files[download_path(uuid)].len < BlobChunks

\* C19, as stated: an id of find_changed is absent locally or has a local
\* version lower than the remote one.
C19_OnlyLower ==
    \A id \in find_changed(local_state, docs) :
        \/ id \notin DOMAIN local_state
        \/ local_state[id].version < docs[id].version

\* C19, amended: an id of find_changed is absent locally or has a local
\* version that differs from the remote one, and a listed id with a
\* higher local version is in find_changed; the fetch loop visits only
\* ids of that kind.
C19_AlsoHigher ==
    /\ \A id \in find_changed(local_state, docs) :
         \/ id \notin DOMAIN local_state
         \/ local_state[id].version # docs[id].version
    /\ \A id \in DOMAIN docs \cap DOMAIN local_state :
         local_state[id].version > docs[id].version
             => id \in find_changed(local_state, docs)
    /\ pc = "Fetching"
         => changed_uuids \subseteq find_changed(local_state, docs)

\* the fetch loop is fetching an id whose local version is higher than
\* the remote one
C19_Witness ==
    /\ pc = "FetchBlob"
    /\ uuid \in DOMAIN local_state
    /\ local_state[uuid].version > docs[uuid].version

\* C20: the phases run in the order load, list, delete, fetch: before
\* the listing there is no listing and nothing to delete or fetch;
\* while the deletions run nothing is outdated or fetched yet; in the
\* fetch loop no deletion is pending and the index holds no unlisted id.
C20_PhaseOrder ==
    /\ pc = "Loading" => local_state = EmptyMap /\ docs = EmptyMap
    /\ pc \in { "Loading", "Listing" }
         => docs = EmptyMap /\ to_delete = {}
    /\ pc \in { "Loading", "Listing", "Deleting" }
         => changed_uuids = {} /\ uuid = << >>
    /\ pc \in FetchPhase
         => /\ to_delete = {}
            /\ DOMAIN local_state \subseteq DOMAIN docs
            /\ changed_uuids \subseteq DOMAIN docs

\* an id is being adopted in a pass whose listing lacks the id a former
\* pass had stored; that id is gone from the index and from disk
C20_Witness ==
    /\ pc = "AdoptInsert"
    /\ passes = 2
    /\ uuid = <<"a">>
    /\ DOMAIN docs = { <<"a">> }
    /\ <<"b">> \notin DOMAIN local_state
    /\ doc_path(<<"b">>) \notin DOMAIN files
    /\ zip_path(<<"b">>) \notin DOMAIN files
    /\ download_path(<<"b">>) \in DOMAIN files

\* C21: find_locally_changed returns exactly the local ids that the
\* listing lacks or holds at another version, and a local id the listing
\* holds is in find_locally_changed if and only if it is in find_changed.
C21_LocallyChangedMirror ==
    /\ find_locally_changed(local_state, docs)
         = { k \in DOMAIN local_state :
               \/ k \notin DOMAIN docs
               \/ docs[k].version # local_state[k].version }
    /\ \A id \in DOMAIN local_state \cap DOMAIN docs :
         id \in find_locally_changed(local_state, docs)
             <=> id \in find_changed(local_state, docs)

\* C25: when the first pass over a directory in which every metadata file
\* has its blob file returns Ok, the index is the listing, and every
\* listed id has on disk its metadata file, holding the listed record,
\* and its blob file; a later pass that returns Ok leaves the index and
\* the metadata files so as well.
C25_OkMeansInSync ==
    pc = "Done"
        => /\ local_state = docs
           /\ \A id \in DOMAIN docs :
                /\ doc_path(id) \in DOMAIN files
                /\ files[doc_path(id)] = JsonFile(docs[id])
                /\ passes = 1 => zip_path(id) \in DOMAIN files

\* C26: when adopt_doc is at its rename, the BufWriter holds nothing and
\* the download file holds every chunk of the blob.
C26_FlushedBeforeRename ==
    pc = "AdoptRename"
        => /\ outbuf = 0
           /\ files[download_path(uuid)].len = BlobChunks

\* C27: when remove_not_listed has returned, with Ok or with an error,
\* the keys of the index are the ids that have a metadata file in the
\* directory.
C27_IndexAgreesAfterRemove ==
    ( \/ pc = "Deleting" /\ to_delete = {}
      \/ result \in RemoveFailures )
        => DOMAIN local_state = { FileStem(n) : n \in DocEntries(files) }

\* C28: every entry of the index is stored under the id of its record.
C28_KeyIsRecordId ==
    \A k \in DOMAIN local_state : local_state[k].id = k

---------------------------------------------------------------------------
(* A MetadataFile under its public operations *)

\* the pull variables of a run that pulls nothing
PullParked ==
    /\ files = EmptyMap
    /\ local_state = EmptyMap
    /\ docs = EmptyMap
    /\ to_delete = {}
    /\ changed_uuids = {}
    /\ uuid = << >>
    /\ outbuf = 0
    /\ pc = "Loading"
    /\ result = "none"
    /\ killed_at = ""
    /\ passes = 1

\* MetadataFile::new(node_type, parent, name)
MetaInit ==
    /\ now = 0
    /\ \E node_type \in NodeTypes, parent \in Parents, name \in Names :
         meta = MetadataFileNew(node_type, parent, name, now)
    /\ called = Call("new", "")
    /\ origin = "new"
    /\ PullParked
    /\ UploadParked

\* time passes
Tick ==
    /\ now < MaxClock
    /\ now' = now + 1
    /\ called' = Call("tick", "")
    /\ UNCHANGED << meta, origin >>

\* a metadata document is parsed, at the start, in place of the new record
FromValue ==
    /\ called.op = "new"
    /\ \E doc \in MetaDocs :
         /\ meta' = from_value(doc)
         /\ called' = Call("from_value", doc)
    /\ origin' = "parsed"
    /\ UNCHANGED now

\* the record is serialized
ToValue ==
    /\ called' = Call("to_value", to_value(meta))
    /\ UNCHANGED << meta, now, origin >>

SetParent ==
    /\ \E parent \in Parents :
         /\ meta' = set_parent(meta, parent, now)
         /\ called' = Call("set_parent", parent)
    /\ UNCHANGED << now, origin >>

SetName ==
    /\ \E name \in Names :
         /\ meta' = set_name(meta, name, now)
         /\ called' = Call("set_name", name)
    /\ UNCHANGED << now, origin >>

SetBookmarked ==
    /\ \E bookmarked \in BOOLEAN :
         /\ meta' = set_bookmarked(meta, bookmarked, now)
         /\ called' = Call("set_bookmarked", bookmarked)
    /\ UNCHANGED << now, origin >>

DeleteNode ==
    /\ meta' = delete_node(meta, now)
    /\ called' = Call("delete_node", "")
    /\ UNCHANGED << now, origin >>

SetModified ==
    /\ meta' = set_modified(meta, now)
    /\ called' = Call("set_modified", "")
    /\ UNCHANGED << now, origin >>

\* a MetadataFile takes part in no pull and no upload
MetaOnly == UNCHANGED << vars, uploadvars >>

MetaNext ==
    \/ Tick          /\ MetaOnly
    \/ FromValue     /\ MetaOnly
    \/ ToValue       /\ MetaOnly
    \/ SetParent     /\ MetaOnly
    \/ SetName       /\ MetaOnly
    \/ SetBookmarked /\ MetaOnly
    \/ DeleteNode    /\ MetaOnly
    \/ SetModified   /\ MetaOnly

SpecMeta == MetaInit /\ [][MetaNext]_metavars

\* C22: a MetadataFile built by MetadataFile::new and changed by its
\* public operations only has synced false while its version is 0.
C22_UnsyncedAtVersionZero ==
    origin = "new" => ( meta.version = 0 => ~ meta.synced )

\* a new record at version 0 has been renamed, deleted and modified
C22_Witness ==
    /\ origin = "new"
    /\ meta.version = 0
    /\ meta.metadata_modified
    /\ meta.deleted
    /\ meta.modified

\* C23: a record serialized and parsed again is the same record in every
\* field, and a metadata document parsed and serialized again is the
\* same JSON value.
C23_RoundTrip ==
    /\ from_value(to_value(meta)) = meta
    /\ called.op = "to_value" => from_value(called.arg) = meta
    /\ called.op = "from_value" => to_value(meta) = called.arg

\* a synced record with every flag set has been serialized
C23_Witness ==
    /\ called.op = "to_value"
    /\ meta.synced
    /\ meta.metadata_modified
    /\ meta.modified
    /\ meta.deleted
    /\ meta.version > 0

\* C24: a call of set_parent, set_name, set_bookmarked or delete_node
\* that changes its field, and every call of set_modified, sets
\* last_modified to the time of the call in the same step.
C24_LastModifiedUpdated ==
    [][ ( \/ /\ called'.op \in { "set_parent", "set_name",
                                 "set_bookmarked", "delete_node" }
             /\ \/ meta'.parent # meta.parent
                \/ meta'.name # meta.name
                \/ meta'.bookmarked # meta.bookmarked
                \/ meta'.deleted # meta.deleted
          \/ called'.op = "set_modified" )
          => meta'.last_modified = get_now(now) ]_metavars

\* a call has changed the name of a new record later than its creation
\* and the record carries the time of the call
C24_Witness ==
    /\ origin = "new"
    /\ called.op = "set_name"
    /\ meta.name = called.arg
    /\ meta.metadata_modified
    /\ now > 0
    /\ meta.last_modified = get_now(now)

\* C30: set_parent, set_name and set_bookmarked called with the value the
\* record holds, and delete_node called on a deleted record, leave every
\* field of the record as it is.
C30_NoChangeNoEffect ==
    [][ ( \/ called'.op = "set_parent" /\ called'.arg = meta.parent
          \/ called'.op = "set_name" /\ called'.arg = meta.name
          \/ called'.op = "set_bookmarked" /\ called'.arg = meta.bookmarked
          \/ called'.op = "delete_node" /\ meta.deleted )
          => meta' = meta ]_metavars

\* set_name was called with the name the record holds, later than the
\* record's timestamp: the record is unmodified and keeps its timestamp
C30_Witness ==
    /\ called.op = "set_name"
    /\ called.arg = meta.name
    /\ ~ meta.metadata_modified
    /\ meta.last_modified # get_now(now)

---------------------------------------------------------------------------
(* storage_upload_doc, request by request *)

UploadInit ==
    /\ up_args \in [ id : Ids, version : 0..MaxVersion,
                     zipfile : 0..MaxZip ]
    /\ up_pc = "UploadRequest"
    /\ requests = << >>
    /\ replies = << >>
    /\ up_ret = NoReturn
    /\ PullParked
    /\ MetaParked

\* storage_upload_doc returns Err from the step it is at
UploadFail(step) == up_pc' = "Returned" /\ up_ret' = UploadErr(step)

\* the upload request gone wrong: the success flag of the response is
\* not looked at
UploadRequest_NoFlagCheck ==
    /\ up_pc = "UploadRequest"
    /\ \E r \in Replies :
         /\ requests' = Append(requests,
                [ kind |-> "upload_request", id |-> up_args.id,
                  version |-> up_args.version ])
         /\ replies' = Append(replies, r)
         /\ IF /\ r.transport
               /\ is_success(r.status)
               /\ r.parse_ok
               /\ Len(r.items) = 1
            THEN up_pc' = "BlobPut" /\ UNCHANGED up_ret
            ELSE UploadFail("upload_request")
    /\ UNCHANGED up_args

\* PUT upload/request and the checks on its answer
UploadRequest ==
    /\ up_pc = "UploadRequest"
    /\ \E r \in Replies :
         /\ requests' = Append(requests,
                [ kind |-> "upload_request", id |-> up_args.id,
                  version |-> up_args.version ])
         /\ replies' = Append(replies, r)
         /\ IF json_step_ok(r)
            THEN up_pc' = "BlobPut" /\ UNCHANGED up_ret
            ELSE UploadFail("upload_request")
    /\ UNCHANGED up_args

\* PUT of the zipfile to the URL the upload request was answered with
BlobPut ==
    /\ up_pc = "BlobPut"
    /\ \E r \in BlobReplies :
         /\ requests' = Append(requests,
                [ kind |-> "blob_put",
                  uri |-> replies[1].items[1].blob_url_put,
                  body |-> up_args.zipfile ])
         /\ replies' = Append(replies, r)
         /\ IF blob_step_ok(r)
            THEN up_pc' = "UpdateStatus" /\ UNCHANGED up_ret
            ELSE UploadFail("blob_put")
    /\ UNCHANGED up_args

\* storage_update_doc: PUT upload/update-status and the checks on its
\* answer; then storage_upload_doc returns Ok(lenzip)
StorageUpdateDoc ==
    /\ up_pc = "UpdateStatus"
    /\ \E r \in Replies :
         /\ requests' = Append(requests,
                [ kind |-> "update_status", id |-> up_args.id,
                  version |-> up_args.version ])
         /\ replies' = Append(replies, r)
         /\ IF json_step_ok(r)
            THEN up_pc' = "Returned" /\ up_ret' = UploadOk(up_args.zipfile)
            ELSE UploadFail("update_status")
    /\ UNCHANGED up_args

\* an upload takes part in no pull and uses no MetadataFile
UploadOnly == UNCHANGED << vars, metavars >>

UploadNext ==
    \/ UploadRequest    /\ UploadOnly
    \/ BlobPut          /\ UploadOnly
    \/ StorageUpdateDoc /\ UploadOnly

SpecUpload == UploadInit /\ [][UploadNext]_uploadvars

\* C29: the requests of storage_upload_doc are sent in the order upload
\* request, blob PUT, update status, each at most once; the blob PUT is
\* sent only after the upload request was answered with a success status
\* and exactly one response whose success flag is set; the update-status
\* request is sent only after the blob PUT was answered with a success
\* status; Ok is returned, with the length of the zipfile, only after the
\* update-status step succeeded as well; and after a failed step no
\* further request is sent and an error is returned.
C29_UploadOrder ==
    /\ Len(requests) <= 3
    /\ Len(replies) = Len(requests)
    /\ \A i \in 1..Len(requests) :
         requests[i].kind
             = << "upload_request", "blob_put", "update_status" >>[i]
    /\ Len(requests) >= 2
         => /\ replies[1].transport
            /\ is_success(replies[1].status)
            /\ replies[1].parse_ok
            /\ Len(replies[1].items) = 1
            /\ replies[1].items[1].success
    /\ Len(requests) >= 3
         => replies[2].transport /\ is_success(replies[2].status)
    /\ ( up_ret.returned /\ up_ret.ok )
         => /\ Len(requests) = 3
            /\ replies[3].transport
            /\ is_success(replies[3].status)
            /\ replies[3].parse_ok
            /\ Len(replies[3].items) = 1
            /\ replies[3].items[1].success
            /\ up_ret.value = up_args.zipfile
    /\ ( up_ret.returned /\ ~ up_ret.ok )
         => /\ Len(requests) >= 1
            /\ up_pc = "Returned"
            /\ LET last == replies[Len(replies)]
               IN  ~ ( /\ last.transport
                       /\ is_success(last.status)
                       /\ last.parse_ok
                       /\ ( Len(requests) # 2
                              => /\ Len(last.items) = 1
                                 /\ last.items[1].success ) )

\* an upload of a zipfile went through its three requests and returned Ok
C29_Witness ==
    /\ up_ret.returned
    /\ up_ret.ok
    /\ up_ret.value > 0
    /\ Len(requests) = 3

====
